---- MODULE Spec2Model ----
(***************************************************************************)
(* State-machine model of x-bot: the SQLite stores of db.py (post_history  *)
(* and daily_queue) as used by concurrent callers, and the posting job of  *)
(* scheduler.py (BotScheduler.run_once) working on the Excel catalog.      *)
(***************************************************************************)
EXTENDS Integers, Sequences, FiniteSets, TLC

(***************************************************************************)
(* Bounds of the model.                                                    *)
(***************************************************************************)
\* number of store calls (db.py) issued in one behaviour
MaxCalls == 5
\* store calls issued while the bot runs
MaxPlanCalls == 2
\* number of post_history rows
MaxHistory == 1

(***************************************************************************)
(* Input domains.                                                          *)
(***************************************************************************)
\* Optional[str] results: Python's None
None == "None"
\* planned_at=None (stored as SQL NULL)
NoPlan == -1
Urls == {"u1", "u2"}
\* ticks per day: a datetime is a number of ticks; dates are multiples of Day
Day == 2
\* the instant the behaviour starts at: midnight of day 200
T0 == 200 * Day
\* datetime.date()
Today(t) == t \div Day
\* timedelta(days=n)
Days(n) == n * Day
RunDates == {Today(T0)}
PlannedAts == {NoPlan, T0 + 1}
HistoryTimes == {T0 - Days(5)}

\* settings.DAILY_SLOTS with SLOTS_LOCAL holding two times: slot ids slot-0, slot-1
Slots == {0, 1}
\* the jobs BotScheduler.start adds: slot-0, slot-1, ...
Jobs == Slots
\* the ids of the jobs BotScheduler.start registers: add_job(self.run_once,
\* id=f"slot-{i}") for each slot i, and nothing else
JobIds == {<<"slot", i>> : i \in Slots}

\* post_job_with_jitter runs run_once on the thread of its caller, outside the
\* jobs of the scheduler: the execution that is not a job
Direct == -1
\* everything that executes run_once
Executors == Jobs \cup {Direct}
\* the thread a job's firing runs on
JobThread(j) == <<"slot", j>>
\* other threads calling the store
c1 == <<"caller", 1>>
c2 == <<"caller", 2>>
Callers == {c1, c2}
Threads == Callers \cup {JobThread(j) : j \in Jobs}
\* the statuses the callers of finish_queue_item pass
TerminalStatuses == {"posted", "skipped", "dry_run"}

VARIABLES
    queue,      \* table daily_queue: a set of rows
    history,    \* table post_history: rows in id order
    cpc,        \* per caller: "idle", or "selected" (inside claim_queue_item, after the SELECT)
    cargs,      \* per caller inside claim_queue_item: its arguments and the row fetched
    last,       \* per thread: its last completed store call, with its result
    budget      \* store calls the clients may still issue

dbvars == <<queue, history, cpc, cargs, last, budget>>

VARIABLES
    file,       \* the sheet on disk: a sequence of rows
    posts,      \* what the X API accepted: the publisher's confirmations, in order
    dryRun,     \* settings.DRY_RUN
    cooldown_days, \* settings.COOLDOWN_DAYS_PER_URL
    sel,        \* what the selection functions returned for (file, clock), once called
    clock,      \* the wall clock, in ticks
    pc,         \* per executor of run_once (job or Direct): "idle", "generate", "publish", "persist", "done" (run_once
                \* returned), "raised" (an exception left run_once)
    df,         \* per job: the DataFrame run_once loaded
    cand,       \* per job: the candidate run_once picked
    now,        \* per job: the instant run_once started at
    result,     \* per job: the event the firing logged last
    fired       \* firings started so far

runvars == <<file, posts, dryRun, cooldown_days, sel, clock, pc, df, cand, now, result, fired>>

(***************************************************************************)
(* db.py: table daily_queue                                                *)
(***************************************************************************)
\* rows selected by WHERE run_date=? AND slot_index=?
KeyRows(q, d, s) == {r \in q : r.run_date = d /\ r.slot_index = s}

\* id INTEGER PRIMARY KEY AUTOINCREMENT; rows are never deleted
NextId(q) == Cardinality(q) + 1

\* INSERT ... VALUES (?, ?, ?, ?, 'pending')
InsertRow(q, d, s, u, p) ==
    q \cup {[id |-> NextId(q), run_date |-> d, slot_index |-> s,
             youtube_url |-> u, planned_at |-> p, status |-> "pending"]}

\* upsert_queue_item with a fault: the DO UPDATE also resets the status
UpsertResetsStatus(q, d, s, u, p) ==
    IF KeyRows(q, d, s) # {}
    THEN {IF r \in KeyRows(q, d, s)
          THEN [r EXCEPT !.youtube_url = u, !.planned_at = p, !.status = "pending"]
          ELSE r : r \in q}
    ELSE InsertRow(q, d, s, u, p)

\* upsert_queue_item with a fault: a plain INSERT into a table without the
\* UNIQUE(run_date, slot_index) constraint
UpsertAlwaysInserts(q, d, s, u, p) == InsertRow(q, d, s, u, p)

\* DB.upsert_queue_item: UNIQUE(run_date, slot_index) decides between the
\* INSERT and the DO UPDATE SET youtube_url, planned_at
upsert_queue_item(q, d, s, u, p) ==
    IF KeyRows(q, d, s) # {}
    THEN {IF r \in KeyRows(q, d, s)
          THEN [r EXCEPT !.youtube_url = u, !.planned_at = p]
          ELSE r : r \in q}
    ELSE InsertRow(q, d, s, u, p)

\* claim_select with a fault: the SELECT lacks AND status='pending'
ClaimSelectAnyStatus(q, d, s) ==
    IF KeyRows(q, d, s) = {} THEN None
    ELSE (CHOOSE r \in KeyRows(q, d, s) : TRUE).youtube_url

\* claim_select with a fault: a row left in posting is handed out again
ClaimSelectUnfinished(q, d, s) ==
    LET rows == {r \in KeyRows(q, d, s) : r.status \in {"pending", "posting"}}
    IN  IF rows = {} THEN None
        ELSE (CHOOSE r \in rows : TRUE).youtube_url

\* DB.claim_queue_item, first statement: SELECT youtube_url ... AND status='pending';
\* fetchone() is the row's url, or None
claim_select(q, d, s) ==
    LET rows == {r \in KeyRows(q, d, s) : r.status = "pending"}
    IN  IF rows = {} THEN None
        ELSE (CHOOSE r \in rows : TRUE).youtube_url

\* DB.claim_queue_item, second statement: UPDATE ... SET status='posting'
\* WHERE run_date=? AND slot_index=?  (no condition on the status)
claim_update(q, d, s) ==
    {IF r \in KeyRows(q, d, s) THEN [r EXCEPT !.status = "posting"] ELSE r : r \in q}

\* finish_queue_item with a fault: a row that already carries the status is
\* reopened instead of left alone
FinishToggles(q, d, s, st) ==
    {IF r \in KeyRows(q, d, s)
     THEN [r EXCEPT !.status = IF r.status = st THEN "posting" ELSE st]
     ELSE r : r \in q}

\* DB.finish_queue_item: UPDATE ... SET status=? WHERE run_date=? AND slot_index=?
finish_queue_item(q, d, s, st) ==
    {IF r \in KeyRows(q, d, s) THEN [r EXCEPT !.status = st] ELSE r : r \in q}

\* DB.get_queue_for_date restricted to one slot: the status of the row, or None
StatusOf(q, d, s) ==
    IF KeyRows(q, d, s) = {} THEN None
    ELSE (CHOOSE r \in KeyRows(q, d, s) : TRUE).status

(***************************************************************************)
(* db.py: table post_history                                               *)
(***************************************************************************)
\* DB.add_history: INSERT INTO post_history(youtube_url, posted_at)
add_history(h, u, when) == Append(h, [youtube_url |-> u, posted_at |-> when])

(***************************************************************************)
(* Store calls. A caller runs one call at a time; every call but           *)
(* claim_queue_item is one SQL statement. rep counts how many times in a   *)
(* row the caller has issued this very call (capped at 2).                 *)
(***************************************************************************)
NoCall == [op |-> "none", d |-> 0, s |-> 0, u |-> None, p |-> NoPlan,
           st |-> None, ret |-> None, rep |-> 0]

Done(c, call) ==
    LET same == /\ last[c].op = call.op /\ last[c].d = call.d /\ last[c].s = call.s
                /\ last[c].u = call.u /\ last[c].p = call.p /\ last[c].st = call.st
    IN  [last EXCEPT ![c] = [call EXCEPT !.rep = IF same THEN 2 ELSE 1]]

CanCall(c) == cpc[c] = "idle" /\ budget > 0

UpsertPlan(c, d, s, u, p) ==
    /\ CanCall(c)
    /\ queue' = upsert_queue_item(queue, d, s, u, p)
    /\ last' = Done(c, [NoCall EXCEPT !.op = "upsert", !.d = d, !.s = s, !.u = u, !.p = p])
    /\ budget' = budget - 1
    /\ UNCHANGED <<history, cpc, cargs>>
    /\ UNCHANGED runvars

ClaimSelect(c, d, s) ==
    /\ CanCall(c)
    /\ LET row == claim_select(queue, d, s)
       IN  IF row = None
           THEN \* if not row: return None
                /\ last' = Done(c, [NoCall EXCEPT !.op = "claim", !.d = d, !.s = s])
                /\ UNCHANGED <<cpc, cargs>>
           ELSE /\ cpc' = [cpc EXCEPT ![c] = "selected"]
                /\ cargs' = [cargs EXCEPT ![c] = [d |-> d, s |-> s, row |-> row]]
                /\ UNCHANGED last
    /\ budget' = budget - 1
    /\ UNCHANGED <<queue, history>>
    /\ UNCHANGED runvars

ClaimUpdate(c) ==
    /\ cpc[c] = "selected"
    /\ queue' = claim_update(queue, cargs[c].d, cargs[c].s)
    /\ cpc' = [cpc EXCEPT ![c] = "idle"]
    /\ last' = Done(c, [NoCall EXCEPT !.op = "claim", !.d = cargs[c].d,
                                      !.s = cargs[c].s, !.ret = cargs[c].row])
    /\ UNCHANGED <<history, cargs, budget>>
    /\ UNCHANGED runvars

Finish(c, d, s, st) ==
    /\ CanCall(c)
    /\ queue' = finish_queue_item(queue, d, s, st)
    /\ last' = Done(c, [NoCall EXCEPT !.op = "finish", !.d = d, !.s = s, !.st = st])
    /\ budget' = budget - 1
    /\ UNCHANGED <<history, cpc, cargs>>
    /\ UNCHANGED runvars

AddHistory(c, u, when) ==
    /\ CanCall(c)
    /\ Len(history) < MaxHistory
    /\ history' = add_history(history, u, when)
    /\ last' = Done(c, [NoCall EXCEPT !.op = "add_history", !.u = u, !.p = when])
    /\ budget' = budget - 1
    /\ UNCHANGED <<queue, cpc, cargs>>
    /\ UNCHANGED runvars

StoreCall(c) ==
    \/ \E d \in RunDates, s \in Slots, u \in Urls, p \in PlannedAts : UpsertPlan(c, d, s, u, p)
    \/ \E d \in RunDates, s \in Slots : ClaimSelect(c, d, s)
    \/ ClaimUpdate(c)
    \/ \E d \in RunDates, s \in Slots, st \in TerminalStatuses : Finish(c, d, s, st)
    \/ \E u \in Urls, when \in HistoryTimes : AddHistory(c, u, when)

\* the stores as DB._ensure creates them
InitDB ==
    /\ queue = {}
    /\ history = <<>>
    /\ cpc = [c \in Callers |-> "idle"]
    /\ cargs = [c \in Callers |-> [d |-> 0, s |-> 0, row |-> None]]
    /\ last = [c \in Threads |-> NoCall]

(***************************************************************************)
(* The catalog (the Excel sheet "Tracks") and the posting job.             *)
(***************************************************************************)
\* ticks the clock advances in one behaviour
MaxTicks == 1
\* firings of run_once started in one behaviour
MaxFirings == 2

\* the defaults of settings.COOLDOWN_DAYS_PER_URL and settings.RECENT_DAYS_PRIORITY
COOLDOWN_DAYS_PER_URL == 30
RECENT_DAYS_PRIORITY == 60

\* settings.platforms with PLATFORMS_ENABLED="YouTube,Beatport", in list order
Platforms == <<"YouTube", "Beatport">>
PlatSet == {Platforms[i] : i \in 1..Len(Platforms)}
PlatPos(plat) == CHOOSE i \in 1..Len(Platforms) : Platforms[i] = plat

\* A datetime: its instant t and whether it carries a UTC offset (tzinfo).
\* NaT is the missing value (None, NaT, an empty cell).
DT(t, aware) == [t |-> t, aware |-> aware]
NaT == DT(-1, FALSE)
\* datetime(1970, 1, 1, tzinfo=self.tz)
Epoch == DT(0, TRUE)
\* One row of the sheet: per platform its URL column, Posted column and
\* LastPosted...At column, and the ReleaseDate column.
Row(uY, uB, rel, lastY, lastB) ==
    [url      |-> [plat \in PlatSet |-> IF plat = "YouTube" THEN uY ELSE uB],
     release  |-> rel,
     posted   |-> [plat \in PlatSet |-> FALSE],
     lastpost |-> [plat \in PlatSet |-> IF plat = "YouTube" THEN lastY ELSE lastB]]

\* The sheets a behaviour may start from. Excel date cells load as naive
\* datetimes; text cells holding an ISO date with an offset load as aware ones.
Catalogs ==
    { <<>>,
      \* A released 10 days ago, B released 100 days ago, never posted
      << Row("u1", None, DT(T0 - Days(10), TRUE), NaT, NaT),
         Row("u2", None, DT(T0 - Days(100), TRUE), NaT, NaT) >>,
      \* the same URL on two rows and on both platforms of a row; no release date
      << Row("u1", "u2", NaT, NaT, NaT),
         Row("u1", None, DT(T0 - Days(5), TRUE), NaT, NaT) >>,
      \* everything posted within the cooldown
      << Row("u1", None, DT(T0 - Days(10), TRUE), DT(T0 - Days(3), TRUE), NaT) >>,
      \* u1 in cooldown, u2 out of it
      << Row("u1", None, DT(T0 - Days(10), TRUE), DT(T0 - Days(3), TRUE), NaT),
         Row(None, "u2", DT(T0 - Days(20), TRUE), NaT, DT(T0 - Days(40), TRUE)) >>,
      \* a plain Excel date cell: a naive datetime
      << Row("u1", None, DT(T0 - Days(10), FALSE), NaT, NaT) >>,
      \* a row without any URL
      << Row(None, None, DT(T0 - Days(10), TRUE), NaT, NaT) >> }

(***************************************************************************)
(* scheduler.py: selection                                                 *)
(***************************************************************************)
\* comparing an offset-naive datetime with the offset-aware now raises TypeError
Comparable(a) == a.aware

\* pd.isna(url) or not str(url).strip()
HasUrl(row, plat) == row.url[plat] # None

\* BotScheduler._is_url_in_cooldown: TRUE, FALSE or "TypeError".
\* mask: ALL rows whose URL of that platform matches; blocked when some
\* last-posted value of them is >= now - COOLDOWN days.
CooldownLasts(d, url, plat) ==
    {d[i].lastpost[plat] : i \in {j \in 1..Len(d) : d[j].url[plat] = url}} \ {NaT}

CooldownRaises(d, url, plat) ==
    \E l \in CooldownLasts(d, url, plat) : ~Comparable(l)

\* _is_url_in_cooldown with a fault: no URL is ever blocked
CooldownNever(d, url, plat, t) == FALSE

_is_url_in_cooldown(d, url, plat, t) ==
    \E l \in CooldownLasts(d, url, plat) : l.t >= t - Days(cooldown_days)

\* is_recent=(rdt_dt is not None and rdt_dt >= recent_cut)
IsRecent(row, t) == row.release # NaT /\ row.release.t >= t - Days(RECENT_DAYS_PRIORITY)

\* the (row, platform) pairs _explode_candidates looks at
Pairs(d) == {<<i, plat>> : i \in 1..Len(d), plat \in PlatSet}

\* BotScheduler._explode_candidates raises TypeError
ExplodeRaises(d, t) ==
    \E pr \in Pairs(d) :
        /\ HasUrl(d[pr[1]], pr[2])
        /\ \/ d[pr[1]].release # NaT /\ ~Comparable(d[pr[1]].release)
           \/ CooldownRaises(d, d[pr[1]].url[pr[2]], pr[2])

Candidate(d, i, plat, t) ==
    [row_idx |-> i, platform |-> plat, url |-> d[i].url[plat],
     release_dt |-> d[i].release, is_recent |-> IsRecent(d[i], t)]

NoCand == [row_idx |-> 0, platform |-> None, url |-> None,
           release_dt |-> NaT, is_recent |-> FALSE]

\* BotScheduler._explode_candidates: the candidates, as a set; their order in
\* the list is row order, then platform order
_explode_candidates(d, t) ==
    {Candidate(d, pr[1], pr[2], t) :
        pr \in {q \in Pairs(d) : /\ HasUrl(d[q[1]], q[2])
                                 /\ ~_is_url_in_cooldown(d, d[q[1]].url[q[2]], q[2], t)}}

\* sort_key: (0 if c.is_recent else 1, -rd.timestamp(), c.row_idx)
Rd(c) == IF c.release_dt = NaT THEN Epoch.t ELSE c.release_dt.t

\* sort_key with a fault: the recency flag sorts the other way round
KeyLessBackCatalogFirst(a, b) ==
    \/ ~a.is_recent /\ b.is_recent
    \/ a.is_recent = b.is_recent /\ Rd(a) > Rd(b)
    \/ a.is_recent = b.is_recent /\ Rd(a) = Rd(b) /\ a.row_idx < b.row_idx

KeyLess(a, b) ==
    \/ a.is_recent /\ ~b.is_recent
    \/ a.is_recent = b.is_recent /\ Rd(a) > Rd(b)
    \/ a.is_recent = b.is_recent /\ Rd(a) = Rd(b) /\ a.row_idx < b.row_idx

KeyEq(a, b) == a.is_recent = b.is_recent /\ Rd(a) = Rd(b) /\ a.row_idx = b.row_idx

\* _pick_candidate with a fault: the last row of the sheet wins
PickLastRow(cands) ==
    CHOOSE c \in cands :
        \A o \in cands :
            \/ c.row_idx > o.row_idx
            \/ c.row_idx = o.row_idx /\ PlatPos(c.platform) >= PlatPos(o.platform)

\* BotScheduler._pick_candidate: candidates.sort(key=sort_key) is stable, so
\* among equal keys the first in list order (platform order) stays first
_pick_candidate(cands) ==
    CHOOSE c \in cands :
        \A o \in cands :
            \/ KeyLess(c, o)
            \/ KeyEq(c, o) /\ PlatPos(c.platform) <= PlatPos(o.platform)

(***************************************************************************)
(* scheduler.py: persistence                                               *)
(***************************************************************************)
\* BotScheduler._mark_posted: df.loc[row_idx, posted_col] = True;
\* df.loc[row_idx, last_posted_col] = when   (when is the aware now)
_mark_posted(d, c, when) ==
    [d EXCEPT ![c.row_idx] =
        [@ EXCEPT !.posted[c.platform] = TRUE,
                  !.lastpost[c.platform] = DT(when, TRUE)]]

\* ShouldPersist with a fault: the DRY_RUN test is missing
PersistAlways(dry) == TRUE

\* "if not settings.DRY_RUN:" before _mark_posted and _save_tracks_df
ShouldPersist(dry) == ~dry

\* What an Excel date cell holds once written: the sheet has no UTC offsets,
\* a datetime read back from it is naive.
Stored(v) == IF v = NaT THEN NaT ELSE DT(v.t, FALSE)

StoredRow(r, old) ==
    [r EXCEPT !.lastpost = [plat \in PlatSet |->
        IF r.lastpost[plat] = old.lastpost[plat] THEN r.lastpost[plat]
        ELSE Stored(r.lastpost[plat])]]

\* BotScheduler._save_tracks_df, when the write goes through: the sheet is
\* replaced by the DataFrame
SavedSheet(d, f0) ==
    [i \in 1..Len(d) |-> IF i <= Len(f0) THEN StoredRow(d[i], f0[i]) ELSE d[i]]

(***************************************************************************)
(* scheduler.py: the candidates in the order _pick_candidate sorts them    *)
(***************************************************************************)
\* the elements of S as a list in the strict order Before
Ordered(S, Before(_, _)) ==
    CHOOSE q \in [1..Cardinality(S) -> S] :
        \A a, b \in 1..Cardinality(S) : a < b => Before(q[a], q[b])

\* list.sort(key=sort_key) is stable: equal keys keep their list order, which
\* within a row is the platform order
CandBefore(a, b) ==
    \/ KeyLess(a, b)
    \/ KeyEq(a, b) /\ PlatPos(a.platform) < PlatPos(b.platform)

\* candidates.sort(key=sort_key)
SortedCandidates(cands) == Ordered(cands, CandBefore)

(***************************************************************************)
(* excel_manager.py: ExcelManager on a sheet with the columns YouTubeURL,  *)
(* ReleaseDate and LastPostedAt (the YouTube columns of a Row)             *)
(***************************************************************************)
\* module constants of excel_manager.py
RECENT_WINDOW_DAYS == 60
COOLDOWN_DAYS == 30

\* utils.is_valid_youtube: the URL is one of youtube.com or youtu.be
is_valid_youtube(u) == u \in Urls

\* ExcelManager._cooldown_cutoff
_cooldown_cutoff(t) == t - Days(COOLDOWN_DAYS)

\* recent_block: LastPostedAt.notna() & (LastPostedAt >= cutoff); LastPostedAt
\* was converted with utc=True and compares with now_utc whatever it held
recent_block(r, t) ==
    r.lastpost["YouTube"] # NaT /\ r.lastpost["YouTube"].t >= _cooldown_cutoff(t)

\* the rows of pool before the dedup (index labels of the DataFrame)
PoolRows(d, t) ==
    {i \in 1..Len(d) : /\ ~recent_block(d[i], t)
                       /\ d[i].release # NaT
                       /\ is_valid_youtube(d[i].url["YouTube"])}

\* sort_values(by=["ReleaseDate"], ascending=False, kind="stable")
ReleaseBefore(d, i, j) ==
    \/ d[i].release.t > d[j].release.t
    \/ d[i].release.t = d[j].release.t /\ i < j

\* ExcelManager.eligible_pool: the rows kept, as their indices in sheet d, in
\* the order of the returned DataFrame; drop_duplicates(keep="first") keeps of
\* each URL the row that comes first after the sort
eligible_pool(d, t) ==
    LET kept  == PoolRows(d, t)
        first == {i \in kept :
                    \A j \in kept :
                        (j # i /\ d[j].url["YouTube"] = d[i].url["YouTube"])
                            => ReleaseBefore(d, i, j)}
    IN  Ordered(first, LAMBDA i, j : ReleaseBefore(d, i, j))

Range(q) == {q[i] : i \in 1..Len(q)}

\* DataFrame.sample(frac=1): the rows in any order
Shuffles(S) ==
    {q \in [1..Cardinality(S) -> S] :
        \A a, b \in 1..Cardinality(S) : a # b => q[a] # q[b]}

\* DataFrame.head(k)
head(q, k) == SubSeq(q, 1, IF k < Len(q) THEN k ELSE Len(q))

\* recent = pool[ReleaseDateDate >= today - RECENT_WINDOW_DAYS], on dates
IsRecentDate(r, t) == Today(r.release.t) >= Today(t) - RECENT_WINDOW_DAYS

\* extra = pool[~pool["YouTubeURL"].isin(chosen["YouTubeURL"])]
ExtraRows(d, pool, chosen) ==
    {i \in Range(pool) : \A c \in Range(chosen) : d[c].url["YouTube"] # d[i].url["YouTube"]}

\* ExcelManager.pick_daily_set: every DataFrame it can return (the shuffles
\* are random), as lists of row indices of sheet d
pick_daily_set(d, now_local, now_utc, k) ==
    LET pool    == eligible_pool(d, now_utc)
        recent  == {i \in Range(pool) : IsRecentDate(d[i], now_local)}
        backcat == Range(pool) \ recent
    IN  UNION {
          LET chosen == head(r \o b, k)
          IN  IF Len(chosen) < k
              THEN {chosen \o head(e, k - Len(chosen)) :
                        e \in Shuffles(ExtraRows(d, pool, chosen))}
              ELSE {chosen}
          : r \in Shuffles(recent), b \in Shuffles(backcat)}

(***************************************************************************)
(* The selection functions, called on their own                            *)
(***************************************************************************)
\* the configured cooldowns tried
MaxCooldownDays == 2
\* the sizes k of a daily set tried
MaxK == 2

\* ages, in days, of the last-posted dates tried: around every configured
\* cooldown and around the cooldown of excel_manager.py
LastAges ==
    (0..(MaxCooldownDays + 1)) \cup {COOLDOWN_DAYS - 1, COOLDOWN_DAYS, COOLDOWN_DAYS + 1}

\* a last-posted value that many days before t, at the same time of day
SelLasts(t) ==
    {NaT, DT(t - Days(1), FALSE)} \cup {DT(t - Days(n), TRUE) : n \in LastAges}

\* ages, in days, of the release dates tried: around the recency window
ReleaseAges == {10, RECENT_DAYS_PRIORITY, RECENT_DAYS_PRIORITY + 1}

\* a release date is the midnight of its day
SelReleases(t) ==
    {NaT, DT(Days(Today(t) - 10), FALSE)}
        \cup {DT(Days(Today(t) - n), TRUE) : n \in ReleaseAges}

SelRows(t) ==
    {Row(u, None, rel, l, NaT) : u \in Urls, rel \in SelReleases(t), l \in SelLasts(t)}

\* the sheets tried: up to two rows
SelCatalogs(t) ==
    {<<>>} \cup {<<a>> : a \in SelRows(t)} \cup {<<a, b>> : a \in SelRows(t), b \in SelRows(t)}

\* nothing called yet
NoSel == [called |-> {}, raised |-> FALSE, ranked |-> <<>>, pool |-> <<>>,
          k |-> 0, chosen |-> <<>>]

SelUnchanged ==
    /\ UNCHANGED <<file, posts, dryRun, cooldown_days, clock, pc, df, cand, now, result, fired>>
    /\ UNCHANGED dbvars

\* run_once lines 112-117 alone: _explode_candidates, then the sort of
\* _pick_candidate; ranked is the sorted list, raised tells a TypeError
SelectCandidates ==
    /\ "scheduler" \notin sel.called
    /\ sel' = [sel EXCEPT
                 !.called = @ \cup {"scheduler"},
                 !.raised = ExplodeRaises(file, clock),
                 !.ranked = IF ExplodeRaises(file, clock) THEN <<>>
                            ELSE SortedCandidates(_explode_candidates(file, clock))]
    /\ SelUnchanged

\* ExcelManager.eligible_pool(now_utc)
EligiblePool ==
    /\ "eligible_pool" \notin sel.called
    /\ sel' = [sel EXCEPT !.called = @ \cup {"eligible_pool"},
                          !.pool = eligible_pool(file, clock)]
    /\ SelUnchanged

\* ExcelManager.pick_daily_set(now_local, now_utc, k)
PickDailySet(k) ==
    /\ "pick_daily_set" \notin sel.called
    /\ \E ch \in pick_daily_set(file, clock, clock, k) :
          sel' = [sel EXCEPT !.called = @ \cup {"pick_daily_set"}, !.k = k, !.chosen = ch]
    /\ SelUnchanged

(***************************************************************************)
(* scheduler.py: BotScheduler.run_once, one job per slot (max_instances=1) *)
(***************************************************************************)
\* the handler with a fault: no "except Exception", an exception raised in
\* the try block leaves run_once ("raised")
ExceptNothing(ev) == IF ev = "job_exception" THEN "raised" ELSE "done"

\* the handler with a fault: after an exception the firing tries the
\* publish (again)
ExceptRetries(ev) == IF ev = "job_exception" THEN "publish" ELSE "done"

\* lines 144-147: where a firing goes on after event ev. The early returns
\* and "except Exception" (job_exception is logged) all pass through the
\* finally block and run_once returns: "done"
except_Exception(ev) == "done"

Ended(j, ev) ==
    /\ pc' = [pc EXCEPT ![j] = except_Exception(ev)]
    /\ result' = [result EXCEPT ![j] = ev]

\* lines 104-120: now, _load_tracks_df, _explode_candidates, _pick_candidate
JobStart(j) ==
    /\ pc[j] = "idle"
    /\ fired < MaxFirings
    /\ fired' = fired + 1
    /\ now' = [now EXCEPT ![j] = clock]
    /\ \/ \* _load_tracks_df returned None (file missing or unreadable)
          /\ df' = [df EXCEPT ![j] = <<>>]
          /\ Ended(j, "no_data")
          /\ UNCHANGED cand
       \/ /\ df' = [df EXCEPT ![j] = file]
          /\ IF Len(file) = 0
             THEN Ended(j, "no_data") /\ UNCHANGED cand
             ELSE IF ExplodeRaises(file, clock)
             THEN Ended(j, "job_exception") /\ UNCHANGED cand
             ELSE IF _explode_candidates(file, clock) = {}
             THEN Ended(j, "no_candidates") /\ UNCHANGED cand
             ELSE /\ cand' = [cand EXCEPT ![j] = _pick_candidate(_explode_candidates(file, clock))]
                  /\ pc' = [pc EXCEPT ![j] = "generate"]
                  /\ UNCHANGED result
    /\ UNCHANGED <<file, posts, dryRun, cooldown_days, sel, clock>>
    /\ UNCHANGED dbvars

\* lines 122-130: build_post(title=..., ...) returns the text or raises. (The
\* build_post of post_generator.py takes one row argument, so with it the call
\* raises TypeError; text generation is an external collaborator and both
\* outcomes are kept.)
GenerateText(j) ==
    /\ pc[j] = "generate"
    /\ \/ pc' = [pc EXCEPT ![j] = "publish"] /\ UNCHANGED result
       \/ Ended(j, "job_exception")
    /\ UNCHANGED <<file, posts, dryRun, cooldown_days, sel, clock, df, cand, now, fired>>
    /\ UNCHANGED dbvars

\* Publish with a fault: a failed request is taken for a success, the firing
\* goes on to the bookkeeping without a confirmation of the X API
PublishUnconfirmed(j) ==
    /\ pc[j] = "publish"
    /\ pc' = [pc EXCEPT ![j] = "persist"]
    /\ \/ ~dryRun /\ posts' = Append(posts, [slot |-> j, url |-> cand[j].url, at |-> now[j]])
       \/ UNCHANGED posts
    /\ UNCHANGED <<file, dryRun, cooldown_days, sel, clock, df, cand, now, result, fired>>
    /\ UNCHANGED dbvars

\* lines 133-137: XClient.post_text. DRY_RUN returns the simulated payload;
\* otherwise the API answers, or the request or raise_for_status raises.
\* (prepare_thumbnail_if_enabled returns None with ATTACH_THUMBNAIL off, the
\* default, and catches its own failures.)
Publish(j) ==
    /\ pc[j] = "publish"
    /\ IF dryRun
       THEN /\ pc' = [pc EXCEPT ![j] = "persist"]
            /\ UNCHANGED <<posts, result>>
       ELSE \/ /\ posts' = Append(posts, [slot |-> j, url |-> cand[j].url, at |-> now[j]])
               /\ pc' = [pc EXCEPT ![j] = "persist"]
               /\ UNCHANGED result
            \/ /\ Ended(j, "job_exception")
               /\ UNCHANGED posts
    /\ UNCHANGED <<file, dryRun, cooldown_days, sel, clock, df, cand, now, fired>>
    /\ UNCHANGED dbvars

\* lines 137-142: post_done, then _mark_posted and _save_tracks_df unless
\* DRY_RUN. The write goes through, or fails and is logged inside
\* _save_tracks_df (excel_write_error), or the file has gone and creating it
\* raises, which run_once catches (job_exception).
Persist(j) ==
    /\ pc[j] = "persist"
    /\ IF ShouldPersist(dryRun)
       THEN /\ df' = [df EXCEPT ![j] = _mark_posted(df[j], cand[j], now[j])]
            /\ \/ file' = SavedSheet(df'[j], df[j]) /\ Ended(j, "posted")
               \/ UNCHANGED file /\ Ended(j, "posted")
               \/ UNCHANGED file /\ Ended(j, "job_exception")
       ELSE /\ UNCHANGED <<df, file>>
            /\ Ended(j, "dry_run")
    /\ UNCHANGED <<posts, dryRun, cooldown_days, sel, clock, cand, now, fired>>
    /\ UNCHANGED dbvars

\* line 147: job_end; the job's trigger may fire again
JobEnd(j) ==
    /\ pc[j] = "done"
    /\ pc' = [pc EXCEPT ![j] = "idle"]
    /\ UNCHANGED <<file, posts, dryRun, cooldown_days, sel, clock, df, cand, now, result, fired>>
    /\ UNCHANGED dbvars

\* time passes: datetime.now(self.tz) grows
Tick ==
    /\ clock < T0 + MaxTicks
    /\ clock' = clock + 1
    /\ UNCHANGED <<file, posts, dryRun, cooldown_days, sel, pc, df, cand, now, result, fired>>
    /\ UNCHANGED dbvars

RunOnce(j) ==
    \/ JobStart(j)
    \/ GenerateText(j)
    \/ Publish(j)
    \/ Persist(j)
    \/ JobEnd(j)

InitRun ==
    /\ file \in Catalogs
    /\ posts = <<>>
    /\ dryRun \in BOOLEAN
    /\ cooldown_days = COOLDOWN_DAYS_PER_URL
    /\ sel = NoSel
    /\ clock = T0
    /\ pc = [j \in Executors |-> "idle"]
    /\ df = [j \in Executors |-> <<>>]
    /\ cand = [j \in Executors |-> NoCand]
    /\ now = [j \in Executors |-> T0]
    /\ result = [j \in Executors |-> "none"]
    /\ fired = 0

vars == <<dbvars, runvars>>

\* the bot started, with a client of the store beside it
Init == InitDB /\ InitRun /\ budget = MaxPlanCalls

\* the stores alone, beside a bot that is not running
InitStore ==
    /\ InitDB
    /\ InitRun
    /\ file = <<>>
    /\ ~dryRun
    /\ budget = MaxCalls

\* main.post_now: _scheduler.post_one(slot_index=slot_index). BotScheduler
\* defines no post_one, so the call raises AttributeError and nothing runs
PostNow ==
    /\ pc[Direct] = "idle"
    /\ result[Direct] # "AttributeError"
    /\ result' = [result EXCEPT ![Direct] = "AttributeError"]
    /\ UNCHANGED <<file, posts, dryRun, cooldown_days, sel, clock, pc, df, cand, now, fired>>
    /\ UNCHANGED dbvars

\* BotScheduler.post_job_with_jitter: self.run_once(), at once
PostJobWithJitter == RunOnce(Direct)

\* the scheduler's jobs and the clock
NextRun ==
    \/ \E j \in Jobs : RunOnce(j)
    \/ Tick

\* one caller: the calls of a sequential run
NextSeq == StoreCall(c1)

\* callers running concurrently
NextClaim == \E c \in Callers : StoreCall(c)

\* the bot running while a client of the store plans and finishes slots
NextBot ==
    \/ NextRun
    \/ NextSeq

\* the selection functions applied to a sheet, an instant and a configured
\* cooldown
InitSelect ==
    /\ InitDB
    /\ budget = 0
    /\ clock \in {T0, T0 + 1}
    /\ file \in SelCatalogs(clock)
    /\ cooldown_days \in 1..MaxCooldownDays
    /\ sel = NoSel
    /\ posts = <<>>
    /\ dryRun = FALSE
    /\ pc = [j \in Executors |-> "idle"]
    /\ df = [j \in Executors |-> <<>>]
    /\ cand = [j \in Executors |-> NoCand]
    /\ now = [j \in Executors |-> T0]
    /\ result = [j \in Executors |-> "none"]
    /\ fired = 0

NextSelect ==
    \/ SelectCandidates
    \/ EligiblePool
    \/ \E k \in 1..MaxK : PickDailySet(k)

SpecSelect == InitSelect /\ [][NextSelect]_vars

\* the scheduler's jobs, the clock and the immediate executions
NextNow ==
    \/ NextRun
    \/ PostNow
    \/ PostJobWithJitter

SpecNow == Init /\ [][NextNow]_vars

SpecSeq == InitStore /\ [][NextSeq]_vars

SpecClaim == InitStore /\ [][NextClaim]_vars

SpecRun == Init /\ [][NextRun]_vars

Spec == Init /\ [][NextBot]_vars

(***************************************************************************)
(* Properties                                                              *)
(***************************************************************************)
Keys == RunDates \X Slots

\* this step is a store call of thread c that has just returned
Returned(c, op) ==
    /\ last'[c].op = op
    /\ \/ budget' # budget /\ cpc'[c] = "idle"
       \/ cpc[c] = "selected" /\ cpc'[c] = "idle"

\* the rows outside (d, s) are left alone
OthersKept(d, s) == queue' \ KeyRows(queue', d, s) = queue \ KeyRows(queue, d, s)

\* C1: two callers that run claim_queue_item concurrently for the same
\* (run_date, slot_index) never both receive the planned URL: at most one of
\* two claims of a slot returns a URL, the other returns None.
ClaimAtMostOnce ==
    \A a \in Callers, b \in Callers :
        (/\ a # b
         /\ last[a].op = "claim" /\ last[b].op = "claim"
         /\ last[a].d = last[b].d /\ last[a].s = last[b].s)
        => ~(last[a].ret # None /\ last[b].ret # None)

\* C2: in a sequential run, claim_queue_item returns the planned URL and moves
\* the row from pending to posting only if the row exists with status pending;
\* otherwise it returns None and leaves daily_queue as it was; a second claim
\* of the same slot right after the first returns None.
ClaimContract ==
    [][\A d \in RunDates, s \in Slots :
         (Returned(c1, "claim") /\ last'[c1].d = d /\ last'[c1].s = s) =>
            /\ IF StatusOf(queue, d, s) = "pending"
               THEN /\ last'[c1].ret \in Urls
                    /\ \E r \in KeyRows(queue, d, s) :
                          /\ last'[c1].ret = r.youtube_url
                          /\ KeyRows(queue', d, s) = {[r EXCEPT !.status = "posting"]}
                    /\ OthersKept(d, s)
               ELSE /\ last'[c1].ret = None
                    /\ queue' = queue
            /\ last'[c1].rep = 2 => last'[c1].ret = None]_vars

\* C2 witness: a claim returned the URL and the same claim, issued again at
\* once, returned None
ClaimTwiceSeen ==
    /\ last[c1].op = "claim" /\ last[c1].rep = 2 /\ last[c1].ret = None
    /\ StatusOf(queue, last[c1].d, last[c1].s) = "posting"

\* C3: every firing of run_once reaches a finish_queue_item call for its slot
\* before it ends.
FiringReachesFinish ==
    \A j \in Jobs :
        pc[j] = "done" =>
            /\ last[JobThread(j)].op = "finish"
            /\ last[JobThread(j)].s = j

\* C4: a daily_queue row has status posted only if the publisher confirmed a
\* real (non-dry-run) publish for that slot and day.
PostedOnlyAfterPublish ==
    \A r \in queue :
        r.status = "posted" =>
            \E i \in 1..Len(posts) :
                /\ posts[i].slot = r.slot_index
                /\ Today(posts[i].at) = r.run_date

\* a step of the store's clients (not of a job)
StoreStep == budget' # budget \/ cpc' # cpc \/ last' # last

\* C5: with DRY_RUN set, no step of a firing adds a post_history row, writes
\* the sheet, or touches a row's Posted / LastPosted...At in the DataFrame (the
\* DataFrame only changes when a firing loads it).
DryRunIsolation ==
    [][(dryRun /\ ~StoreStep) =>
          /\ history' = history
          /\ file' = file
          /\ \A j \in Jobs : df'[j] # df[j] => (pc[j] = "idle" /\ df'[j] \in {file, <<>>})]_vars

\* C5 witness: a dry-run firing went through publish and ended
DryRunFiringDone ==
    \E j \in Jobs : dryRun /\ pc[j] = "done" /\ result[j] = "dry_run" /\ cand[j].url \in Urls

\* the terminal status the outcome of a firing calls for
StatusFor(ev) ==
    CASE ev = "posted" -> "posted"
      [] ev = "dry_run" -> "dry_run"
      [] OTHER -> "skipped"

\* C6: the terminal status a firing records for its slot matches its outcome:
\* posted after a confirmed real publish, dry_run after a simulated one,
\* skipped when there is no candidate or text generation or publish fails.
FiringRecordsOutcome ==
    \A j \in Jobs :
        (pc[j] = "done" /\ result[j] \in {"posted", "dry_run", "no_candidates", "job_exception"}) =>
            /\ last[JobThread(j)].op = "finish"
            /\ last[JobThread(j)].st = StatusFor(result[j])

\* C7: the status of a row changes only by pending -> posting or by
\* posting -> terminal; finish never changes a row that is pending.
StatusMovesLegally ==
    [][\A k \in Keys :
         LET a == StatusOf(queue, k[1], k[2])
             b == StatusOf(queue', k[1], k[2])
         IN  \/ a = b
             \/ a = None /\ b = "pending"
             \/ a = "pending" /\ b = "posting"
             \/ a = "posting" /\ b \in TerminalStatuses]_vars

\* C8: once a row's status is posted, skipped or dry_run, no later call
\* changes it to a different value.
TerminalIsFinal ==
    [][\A k \in Keys :
         StatusOf(queue, k[1], k[2]) \in TerminalStatuses =>
            StatusOf(queue', k[1], k[2]) = StatusOf(queue, k[1], k[2])]_vars

\* C9: finish is idempotent: a finish_queue_item call that repeats the call
\* just made (same slot, same status) leaves daily_queue, post_history and
\* the sheet exactly as the first call left them.
FinishIdempotent ==
    [][(Returned(c1, "finish") /\ last[c1].op = "finish" /\ last'[c1].rep = 2) =>
          /\ queue' = queue
          /\ history' = history
          /\ file' = file]_vars

\* C9 witness: finish was called twice in a row for a row that exists
FinishTwiceSeen ==
    /\ last[c1].op = "finish" /\ last[c1].rep = 2
    /\ StatusOf(queue, last[c1].d, last[c1].s) = last[c1].st

\* C10: upsert_queue_item on an existing (run_date, slot_index) overwrites
\* youtube_url and planned_at and keeps the row's status, whatever it is; on
\* a missing key it creates the row with status pending; repeating the call
\* changes nothing more.
UpsertContract ==
    [][\A d \in RunDates, s \in Slots :
         (Returned(c1, "upsert") /\ last'[c1].d = d /\ last'[c1].s = s) =>
            /\ \E r \in KeyRows(queue', d, s) :
                  /\ KeyRows(queue', d, s) = {r}
                  /\ r.youtube_url = last'[c1].u
                  /\ r.planned_at = last'[c1].p
                  /\ r.status = IF KeyRows(queue, d, s) = {} THEN "pending"
                                ELSE StatusOf(queue, d, s)
                  /\ \A o \in KeyRows(queue, d, s) : o.id = r.id
            /\ OthersKept(d, s)
            /\ (last[c1].op = "upsert" /\ last'[c1].rep = 2) => queue' = queue]_vars

\* C10 witness: a row that is no longer pending was planned again with another
\* URL, by a call issued twice
UpsertTwiceSeen ==
    /\ last[c1].op = "upsert" /\ last[c1].rep = 2
    /\ StatusOf(queue, last[c1].d, last[c1].s) \in TerminalStatuses \cup {"posting"}
    /\ \E r \in KeyRows(queue, last[c1].d, last[c1].s) :
          r.youtube_url = last[c1].u /\ r.planned_at = last[c1].p

\* C11: upsert_queue_item never changes the youtube_url of a row whose status
\* is posting, posted, skipped or dry_run: only unstarted slots are re-planned.
UpsertKeepsStartedUrl ==
    [][\A d \in RunDates, s \in Slots :
         (Returned(c1, "upsert") /\ last'[c1].d = d /\ last'[c1].s = s) =>
            \A r \in KeyRows(queue, d, s) :
                r.status \in TerminalStatuses \cup {"posting"} =>
                    \E n \in KeyRows(queue', d, s) :
                        n.id = r.id /\ n.youtube_url = r.youtube_url]_vars

\* C12: in every reachable state of daily_queue, after any sequence of
\* upsert_queue_item, claim_queue_item and finish_queue_item calls, there is at
\* most one row for each (run_date, slot_index).
OneRowPerSlot ==
    \A k \in Keys : Cardinality(KeyRows(queue, k[1], k[2])) <= 1

\* C12 witness: a slot planned, claimed, finished and planned again holds one row
SlotReplannedSeen ==
    /\ last[c1].op = "upsert"
    /\ StatusOf(queue, last[c1].d, last[c1].s) \in TerminalStatuses
    /\ Cardinality(KeyRows(queue, last[c1].d, last[c1].s)) = 1
    /\ Cardinality(queue) = 2

\* instant p lies within [t - cooldown days, t]
InCooldownWindow(p, t) == p >= t - Days(cooldown_days) /\ p <= t

\* the firing of job j picks its candidate in this step
Picks(j) == pc[j] = "idle" /\ pc'[j] = "generate"

\* C13: cooldown is evaluated per URL over both stores: a firing at time T
\* never selects an item when a post_history row of its URL, or the last-posted
\* date of any sheet row carrying the same URL, lies within
\* [T - cooldown days, T].
CooldownOverBothStores ==
    [][\A j \in Jobs :
         Picks(j) =>
            /\ \A i \in 1..Len(history) :
                  history[i].youtube_url = cand'[j].url =>
                      ~InCooldownWindow(history[i].posted_at, now'[j])
            /\ \A i \in 1..Len(file), plat \in PlatSet :
                  (file[i].url[plat] = cand'[j].url /\ file[i].lastpost[plat] # NaT) =>
                      ~InCooldownWindow(file[i].lastpost[plat].t, now'[j])]_vars

\* row i of the sheet is eligible but for its cooldown: it has a YouTube URL
\* that no other row carries, and a release date
OtherwiseEligible(i) ==
    /\ is_valid_youtube(file[i].url["YouTube"])
    /\ file[i].release # NaT
    /\ \A j \in 1..Len(file) : j # i => file[j].url["YouTube"] # file[i].url["YouTube"]

\* row i was last posted n days before now
LastPostedDaysAgo(i, n) ==
    /\ file[i].lastpost["YouTube"] # NaT
    /\ file[i].lastpost["YouTube"].t = clock - Days(n)

\* row i is in the output of the scheduler's selection / of eligible_pool
InRanked(i) == \E n \in 1..Len(sel.ranked) : sel.ranked[n].row_idx = i
InPool(i) == \E n \in 1..Len(sel.pool) : sel.pool[n] = i

\* C14: for every configured cooldown of cooldown_days >= 1 days, an otherwise
\* eligible item last posted cooldown_days - 1 days ago is excluded from the
\* selection and one last posted cooldown_days + 1 days ago is included, both
\* by run_once's selection and by eligible_pool.
CooldownThreshold ==
    \A i \in 1..Len(file) :
        OtherwiseEligible(i) =>
            /\ "scheduler" \in sel.called =>
                  /\ LastPostedDaysAgo(i, cooldown_days - 1) => ~InRanked(i)
                  /\ LastPostedDaysAgo(i, cooldown_days + 1) => InRanked(i)
            /\ "eligible_pool" \in sel.called =>
                  /\ LastPostedDaysAgo(i, cooldown_days - 1) => ~InPool(i)
                  /\ LastPostedDaysAgo(i, cooldown_days + 1) => InPool(i)

\* rows i and j are two items with the same URL, both with a release date
SameUrlRows(i, j) ==
    /\ i # j
    /\ is_valid_youtube(file[i].url["YouTube"])
    /\ file[i].url["YouTube"] = file[j].url["YouTube"]
    /\ file[i].release # NaT /\ file[j].release # NaT

\* row i passes the filters of run_once's selection
SchedulerEligible(i) ==
    ~_is_url_in_cooldown(file, file[i].url["YouTube"], "YouTube", clock)

\* C15: of two or more eligible items with the same URL the selection output
\* holds at most one, the one with the latest release date, the first in row
\* order on a tie; for the candidate list of run_once and for eligible_pool.
DedupKeepsLatest ==
    \A i \in 1..Len(file), j \in 1..Len(file) :
        SameUrlRows(i, j) =>
            /\ ("scheduler" \in sel.called /\ ~sel.raised
                    /\ SchedulerEligible(i) /\ SchedulerEligible(j)) =>
                  /\ ~(InRanked(i) /\ InRanked(j))
                  /\ InRanked(j) => ReleaseBefore(file, j, i)
            /\ ("eligible_pool" \in sel.called /\ {i, j} \subseteq PoolRows(file, clock)) =>
                  /\ ~(InPool(i) /\ InPool(j))
                  /\ InPool(j) => ReleaseBefore(file, j, i)

\* the release date of row i is the day n days before today
ReleasedDaysAgo(i, n) ==
    file[i].release # NaT /\ Today(file[i].release.t) = Today(clock) - n

\* the position of row i in the daily set chosen, 0 when it is not there
ChosenPos(i) ==
    IF \E n \in 1..Len(sel.chosen) : sel.chosen[n] = i
    THEN CHOOSE n \in 1..Len(sel.chosen) : sel.chosen[n] = i
    ELSE 0

\* C16: the recency boundary is inclusive at any time of day: an item released
\* on the day now.date() - recent window is classified recent, as a candidate
\* of run_once (is_recent) and in a daily set (before every item released
\* earlier than the window).
RecentBoundaryInclusive ==
    /\ "scheduler" \in sel.called =>
          \A n \in 1..Len(sel.ranked) :
              ReleasedDaysAgo(sel.ranked[n].row_idx, RECENT_DAYS_PRIORITY)
                  => sel.ranked[n].is_recent
    /\ "pick_daily_set" \in sel.called =>
          \A i \in 1..Len(file), j \in 1..Len(file) :
              (/\ ChosenPos(i) > 0 /\ ChosenPos(j) > 0
               /\ ReleasedDaysAgo(i, RECENT_WINDOW_DAYS)
               /\ Today(file[j].release.t) < Today(clock) - RECENT_WINDOW_DAYS)
                  => ChosenPos(i) < ChosenPos(j)

\* row i is recent: released on or after the day now.date() - recent window
RecentByDate(i) ==
    file[i].release # NaT /\ Today(file[i].release.t) >= Today(clock) - RECENT_WINDOW_DAYS

\* C17: in the ordered selection output every recent item precedes every
\* back-catalog item, so when a recent item is eligible the item picked for a
\* firing, and the first item of a daily set, is recent.
RecentFirst ==
    /\ "scheduler" \in sel.called =>
          /\ \A m \in 1..Len(sel.ranked), n \in 1..Len(sel.ranked) :
                /\ (sel.ranked[m].is_recent /\ ~sel.ranked[n].is_recent) => m < n
                /\ (RecentByDate(sel.ranked[m].row_idx) /\ ~RecentByDate(sel.ranked[n].row_idx))
                      => m < n
          /\ sel.ranked # <<>> =>
                /\ sel.ranked[1] = _pick_candidate(_explode_candidates(file, clock))
                /\ (\E n \in 1..Len(sel.ranked) : sel.ranked[n].is_recent)
                      => sel.ranked[1].is_recent
                /\ (\E n \in 1..Len(sel.ranked) : RecentByDate(sel.ranked[n].row_idx))
                      => RecentByDate(sel.ranked[1].row_idx)
    /\ "pick_daily_set" \in sel.called =>
          /\ \A m \in 1..Len(sel.chosen), n \in 1..Len(sel.chosen) :
                (RecentByDate(sel.chosen[m]) /\ ~RecentByDate(sel.chosen[n])) => m < n
          /\ (\E i \in Range(eligible_pool(file, clock)) : RecentByDate(i))
                => (sel.chosen # <<>> /\ RecentByDate(sel.chosen[1]))

\* C17 witness: the sheet lists a back-catalog item before a recent one, and
\* both outputs list the recent one first
RecentFirstSeen ==
    /\ {"scheduler", "pick_daily_set"} \subseteq sel.called
    /\ Len(sel.ranked) = 2
    /\ sel.ranked[1].row_idx = 2 /\ sel.ranked[1].is_recent
    /\ sel.ranked[2].row_idx = 1 /\ ~sel.ranked[2].is_recent
    /\ sel.chosen = <<2, 1>>
    /\ RecentByDate(2) /\ ~RecentByDate(1)

\* C18: a URL never occupies two slots of the same day: among the publishes
\* the X API confirmed, no URL was published by the firings of two different
\* slots on one day.
NoUrlInTwoSlots ==
    \A a \in 1..Len(posts), b \in 1..Len(posts) :
        (/\ posts[a].slot # posts[b].slot
         /\ Today(posts[a].at) = Today(posts[b].at))
            => posts[a].url # posts[b].url

\* C19: a firing never propagates an exception: whatever fails inside
\* run_once, no exception leaves it, run_once returns, and the job of the slot
\* can fire again.
FiringNeverRaises ==
    \A j \in Jobs :
        /\ pc[j] # "raised"
        /\ pc[j] = "done" => ENABLED JobEnd(j)
        /\ result[j] \in {"no_data", "no_candidates", "job_exception"}
              => pc[j] \in {"done", "idle", "generate", "publish", "persist"}

\* C19 witness: a firing ended with job_exception after its publish (the save
\* raised), and the same job is firing again
FiredAgainAfterException ==
    \E j \in Jobs :
        /\ result[j] = "job_exception"
        /\ \E i \in 1..Len(posts) : posts[i].slot = j
        /\ pc[j] = "generate"

\* the step leaves the publishes, the history, the sheet and the DataFrames alone
NoBookkeeping ==
    /\ posts' = posts
    /\ history' = history
    /\ file' = file
    /\ df' = df

\* C20: when text generation or publish fails in a firing, the firing makes
\* no second publish attempt and does no bookkeeping: a step out of
\* text generation or publish either goes on to the next stage or ends the
\* firing with job_exception, nothing published, appended, marked or saved;
\* and a firing that has ended only returns.
FailureEndsFiring ==
    [][\A j \in Jobs :
         /\ (pc[j] = "generate" /\ pc'[j] # pc[j]) =>
               \/ pc'[j] = "publish" /\ result'[j] = result[j] /\ NoBookkeeping
               \/ pc'[j] = "done" /\ result'[j] = "job_exception" /\ NoBookkeeping
         /\ (pc[j] = "publish" /\ pc'[j] # pc[j]) =>
               \/ pc'[j] = "persist" /\ result'[j] = result[j]
               \/ pc'[j] = "done" /\ result'[j] = "job_exception" /\ NoBookkeeping
         /\ (pc[j] = "publish" /\ result'[j] # result[j]) => pc'[j] = "done"
         /\ (pc[j] = "done" /\ pc'[j] # pc[j]) => (pc'[j] = "idle" /\ NoBookkeeping)]_vars

\* C20 witness: the only firing so far picked a candidate and ended with
\* job_exception before any publish was confirmed; the sheet is unmarked
PublishFailedSeen ==
    \E j \in Jobs :
        /\ fired = 1 /\ ~dryRun
        /\ pc[j] = "done" /\ result[j] = "job_exception"
        /\ cand[j].url \in Urls
        /\ posts = <<>> /\ history = <<>>
        /\ \A i \in 1..Len(file), plat \in PlatSet : ~file[i].posted[plat]
        /\ \A i \in 1..Len(df[j]), plat \in PlatSet : ~df[j][i].posted[plat]

\* every URL of sheet d is blocked at t by the last-posted value of its own
\* row (also when d has no URL at all, or no row)
AllBlocked(d, t) ==
    \A pr \in Pairs(d) :
        HasUrl(d[pr[1]], pr[2]) =>
            /\ d[pr[1]].lastpost[pr[2]] # NaT
            /\ d[pr[1]].lastpost[pr[2]].t >= t - Days(cooldown_days)

\* C21: if the sheet cannot be loaded or is empty, or no candidate is eligible
\* (none at all, or all blocked by the cooldown), the firing ends at once:
\* it never reaches text generation or publish, no exception leaves it, and
\* the sheet, the publishes, post_history and daily_queue stay as they were.
NothingToPostEndsFiring ==
    [][\A j \in Jobs :
         (/\ pc[j] = "idle" /\ pc'[j] # pc[j]
          /\ \/ df'[j] = <<>>
             \/ ~ExplodeRaises(file, clock) /\ AllBlocked(file, clock))
            => /\ pc'[j] = "done"
               /\ result'[j] \in {"no_data", "no_candidates"}
               /\ posts' = posts /\ file' = file
               /\ history' = history /\ queue' = queue]_vars

\* C21 witness: a firing on a sheet whose only URL is within its cooldown
\* ended with no_candidates
AllBlockedSeen ==
    \E j \in Jobs :
        /\ pc[j] = "done" /\ result[j] = "no_candidates"
        /\ \E pr \in Pairs(file) : HasUrl(file[pr[1]], pr[2])
        /\ AllBlocked(file, now[j])
        /\ ~dryRun /\ posts = <<>>

\* the stages of run_once in their order; every stage may end the firing
StageOrder ==
    {<<"idle", "generate">>, <<"generate", "publish">>, <<"publish", "persist">>,
     <<"idle", "done">>, <<"generate", "done">>, <<"publish", "done">>,
     <<"persist", "done">>, <<"done", "idle">>}

\* the X API confirmed a real publish of the candidate of the firing of job j
Confirmed(j) ==
    /\ ~dryRun
    /\ \E i \in 1..Len(posts) :
          posts[i] = [slot |-> j, url |-> cand[j].url, at |-> now[j]]

\* C22: within a firing the steps are strictly ordered select, generate,
\* publish, record: a row is marked posted, in the DataFrame and in the sheet,
\* only by the firing whose own publish was confirmed as a real success and
\* only after it; a firing appends no history before that either.
RecordOnlyAfterPublish ==
    [][/\ \A j \in Jobs :
            /\ pc'[j] # pc[j] => <<pc[j], pc'[j]>> \in StageOrder
            /\ (df'[j] # df[j] /\ pc[j] # "idle") =>
                  /\ pc[j] = "persist" /\ Confirmed(j)
                  /\ df'[j] = _mark_posted(df[j], cand[j], now[j])
       /\ file' # file =>
             \E j \in Jobs :
                 /\ pc[j] = "persist" /\ Confirmed(j)
                 /\ file' = SavedSheet(_mark_posted(df[j], cand[j], now[j]), df[j])
       /\ history' # history => \E j \in Jobs : pc[j] = "persist" /\ Confirmed(j)]_vars

\* C22 witness: a real firing published, then marked its row and saved the sheet
MarkedAfterPublish ==
    \E j \in Jobs :
        /\ pc[j] = "done" /\ result[j] = "posted" /\ Confirmed(j)
        /\ df[j][cand[j].row_idx].posted[cand[j].platform]
        /\ file[cand[j].row_idx].posted[cand[j].platform]

\* C23: each successful real publish appends one post_history row
\* (youtube_url, posted_at) for the published URL: once a firing has ended as
\* posted, post_history holds exactly one row of its URL and instant.
EachPublishRecorded ==
    \A j \in Jobs :
        (pc[j] = "done" /\ result[j] = "posted") =>
            Cardinality({i \in 1..Len(history) :
                            /\ history[i].youtube_url = cand[j].url
                            /\ history[i].posted_at = now[j]}) = 1

\* url u is carried by some row of sheet d
InCatalog(d, u) == \E pr \in Pairs(d) : d[pr[1]].url[pr[2]] = u

\* C24: a firing whose slot has a pending plan for today, with a URL that is
\* still in the sheet, takes the planned URL (the claim of the slot returns
\* it); it selects live only without such a plan.
PlannedUrlIsPublished ==
    [][\A j \in Jobs :
         Picks(j) =>
            \A r \in KeyRows(queue, Today(clock), j) :
                (r.status = "pending" /\ InCatalog(file, r.youtube_url))
                    => cand'[j].url = r.youtube_url]_vars

\* the smaller of two numbers
Min(a, b) == IF a < b THEN a ELSE b

\* the URLs eligible at t in sheet d
EligibleUrls(d, t) ==
    IF ExplodeRaises(d, t) THEN {} ELSE {c.url : c \in _explode_candidates(d, t)}

\* C25: the scheduler registers a daily build trigger beside the slot
\* triggers, and the build plans the day: while a slot's firing runs,
\* daily_queue holds one row for each slot index below
\* min(number of slots, number of eligible candidates), with distinct URLs.
DailyBuildPlansSlots ==
    /\ \E id \in JobIds : id[1] = "build"
    /\ (\E j \in Jobs : pc[j] # "idle") =>
          \A s \in Slots :
              s < Min(Cardinality(Slots), Cardinality(EligibleUrls(file, T0))) =>
                  /\ Cardinality(KeyRows(queue, Today(clock), s)) = 1
                  /\ \A r \in KeyRows(queue, Today(clock), s), o \in queue :
                        (o.run_date = r.run_date /\ o.slot_index # s)
                            => o.youtube_url # r.youtube_url

\* executor x is inside run_once
Running(x) == pc[x] # "idle"

\* C26: two executions of the same slot's firing never overlap, also when an
\* immediate execution (post-now, post_job_with_jitter) is triggered while a
\* scheduled firing is running: run_once is never executing twice at once
\* for a slot. (run_once takes no slot: an immediate execution is the same
\* run_once as the firing of any slot.)
NoOverlapWithImmediate ==
    \A j \in Jobs : ~(Running(j) /\ Running(Direct))

\* executor x is between its load of the sheet and its save
InLoadSave(x) == pc[x] \in {"generate", "publish", "persist"}

\* C27: catalog writes are serialized: the load, mark-posted, save sequences
\* of two real firings of distinct slots do not interleave, and so two
\* firings never both publish the URL they selected from the same snapshot.
CatalogWritesSerialized ==
    ~dryRun =>
        \A j \in Jobs, k \in Jobs :
            j # k =>
                /\ ~(InLoadSave(j) /\ InLoadSave(k))
                /\ ~(/\ pc[j] = "persist" /\ pc[k] = "persist"
                     /\ df[j] = df[k] /\ cand[j].url = cand[k].url
                     /\ Confirmed(j) /\ Confirmed(k))

\* C28: a row left in posting stays posting under every sequence of
\* upsert_queue_item and claim_queue_item calls: nothing resets it, every
\* later claim of the slot returns None, and only a finish_queue_item call for
\* the slot changes its status.
PostingStaysPosting ==
    [][\A k \in Keys :
         StatusOf(queue, k[1], k[2]) = "posting" =>
            /\ StatusOf(queue', k[1], k[2]) # "posting" =>
                  /\ Returned(c1, "finish")
                  /\ last'[c1].d = k[1] /\ last'[c1].s = k[2]
            /\ (Returned(c1, "claim") /\ last'[c1].d = k[1] /\ last'[c1].s = k[2])
                  => last'[c1].ret = None
            /\ cpc'[c1] = "selected" => (cargs'[c1].d # k[1] \/ cargs'[c1].s # k[2])]_vars

\* C28 witness: a slot was claimed, something else was called, and a later
\* claim of the slot returned None with the row still posting
PostingKeptSeen ==
    /\ last[c1].op = "claim" /\ last[c1].rep = 1 /\ last[c1].ret = None
    /\ StatusOf(queue, last[c1].d, last[c1].s) = "posting"
    /\ \E r \in KeyRows(queue, last[c1].d, last[c1].s) : r.planned_at # NoPlan
    /\ budget <= MaxCalls - 4

\* candidate a is minimal in cands under (recent first, release date
\* descending, row index ascending)
MinimalIn(a, cands) ==
    \A c \in cands :
        /\ a.is_recent \/ ~c.is_recent
        /\ a.is_recent = c.is_recent => Rd(a) >= Rd(c)
        /\ (a.is_recent = c.is_recent /\ Rd(a) = Rd(c)) => a.row_idx <= c.row_idx

\* C29: live selection is deterministic in the catalog state: the candidate a
\* firing picks is the minimal one under (recent first, release date
\* descending, row index ascending) of the sheet it loaded, so it picks the
\* URL of any other firing that is working on the same sheet at the same time.
SelectionDeterministic ==
    [][\A j \in Jobs :
         Picks(j) =>
            /\ cand'[j] \in _explode_candidates(file, clock)
            /\ MinimalIn(cand'[j], _explode_candidates(file, clock))
            /\ \A k \in Jobs :
                  (k # j /\ InLoadSave(k) /\ df[k] = file /\ now[k] = clock)
                      => cand'[j].url = cand[k].url]_vars

\* C29 witness: two firings loaded the same sheet at the same time, with two
\* candidates to choose from, and picked the same URL
SamePickSeen ==
    \E j \in Jobs, k \in Jobs :
        /\ j # k /\ InLoadSave(j) /\ InLoadSave(k)
        /\ df[j] = df[k] /\ now[j] = now[k]
        /\ Cardinality(_explode_candidates(df[j], now[j])) >= 2
        /\ cand[j].url = cand[k].url

====
